---------------------------- MODULE Spec2Model ----------------------------
(***************************************************************************)
(* Model of src/app.py: the three Flask handlers (generate_questions,      *)
(* generate_analysis, generate_emotion_image) and the cue-extraction /     *)
(* image-synthesis pipeline behind generate_emotion_image.                 *)
(*                                                                         *)
(* Python floats are IEEE-754 binary64.  A float is modelled by its exact  *)
(* value m * 2^e, with m a 53-bit significand written as a sequence of     *)
(* bits (most significant first), and every arithmetic operation rounds    *)
(* to nearest, ties to even, as the hardware does.  All values of the      *)
(* program lie in [0, 512], far from the subnormal and overflow ranges.    *)
(***************************************************************************)
EXTENDS Integers, Sequences, FiniteSets, TLC

-----------------------------------------------------------------------------
(* Bounds of the model                                                     *)

\* largest number of repetitions of one vocabulary word in a request text
MaxRep == 3
\* largest raw count per cue of a directly supplied cue vector
MaxCue == 1

-----------------------------------------------------------------------------
(* Bit sequences: unsigned binary numbers, most significant bit first      *)

Max(a, b) == IF a >= b THEN a ELSE b
Min(a, b) == IF a <= b THEN a ELSE b

Zeros(n) == [i \in 1..n |-> 0]

StripLeading(b) ==
  IF \A i \in 1..Len(b) : b[i] = 0 THEN <<>>
  ELSE LET k == CHOOSE i \in 1..Len(b) : b[i] = 1 /\ \A j \in 1..(i-1) : b[j] = 0
       IN  SubSeq(b, k, Len(b))

StripTrailing(b) ==
  IF \A i \in 1..Len(b) : b[i] = 0 THEN <<>>
  ELSE LET k == CHOOSE i \in 1..Len(b) : b[i] = 1 /\ \A j \in (i+1)..Len(b) : b[j] = 0
       IN  SubSeq(b, 1, k)

PadLeft(b, n) == Zeros(n - Len(b)) \o b

\* LimbBits-bit limbs keep every intermediate product below 2^31
LimbBits == 13
Base == 8192

PowTab ==
  << 1, 2, 4, 8, 16, 32, 64, 128, 256, 512, 1024, 2048, 4096, 8192, 16384,
     32768, 65536, 131072, 262144, 524288, 1048576 >>
Pow2(k) == PowTab[k + 1]

RECURSIVE NatBits(_)
NatBits(n) == IF n = 0 THEN <<>> ELSE Append(NatBits(n \div 2), n % 2)

\* the number written by at most 20 bits
RECURSIVE BitsNat(_)
BitsNat(b) ==
  IF b = <<>> THEN 0 ELSE 2 * BitsNat(SubSeq(b, 1, Len(b) - 1)) + b[Len(b)]

\* limbs of a bit sequence, least significant limb first
ToLimbs(b) ==
  LET n == Len(b)
      nl == (n + LimbBits - 1) \div LimbBits
  IN  [j \in 1..nl |->
         BitsNat(SubSeq(b, Max(1, n - LimbBits * j + 1), n - LimbBits * (j - 1)))]

FromLimbs(l) ==
  LET nl == Len(l)
  IN  StripLeading([i \in 1..(LimbBits * nl) |->
         (l[nl - ((i - 1) \div LimbBits)]
            \div Pow2(LimbBits - 1 - ((i - 1) % LimbBits))) % 2])

Limb(l, i) == IF i >= 1 /\ i <= Len(l) THEN l[i] ELSE 0

RECURSIVE AddCarry(_, _, _, _)
AddCarry(a, b, i, c) ==
  IF i > Max(Len(a), Len(b)) THEN (IF c > 0 THEN <<c>> ELSE <<>>)
  ELSE LET s == Limb(a, i) + Limb(b, i) + c
       IN  <<s % Base>> \o AddCarry(a, b, i + 1, s \div Base)

RECURSIVE Column(_, _, _, _)
Column(a, b, k, i) ==
  IF i > Len(a) THEN 0 ELSE a[i] * Limb(b, k - i) + Column(a, b, k, i + 1)

RECURSIVE MulCarry(_, _, _, _)
MulCarry(a, b, k, c) ==
  IF k > Len(a) + Len(b) THEN (IF c > 0 THEN <<c>> ELSE <<>>)
  ELSE LET s == Column(a, b, k, 1) + c
       IN  <<s % Base>> \o MulCarry(a, b, k + 1, s \div Base)

\* a + b
AddBits(a, b) == FromLimbs(AddCarry(ToLimbs(a), ToLimbs(b), 1, 0))

\* a * b
MulBits(a, b) == FromLimbs(MulCarry(ToLimbs(a), ToLimbs(b), 2, 0))

\* a < b, as numbers (neither has leading zeros)
LtBits(a, b) ==
  \/ Len(a) < Len(b)
  \/ /\ Len(a) = Len(b)
     /\ \E i \in 1..Len(a) : a[i] < b[i] /\ \A j \in 1..(i-1) : a[j] = b[j]

-----------------------------------------------------------------------------
(* Exact dyadic numbers [m, e] = m * 2^e, and binary64 floats: dyadics     *)
(* whose m is empty (zero) or has exactly 53 bits with a leading 1         *)

Precision == 53

FZero == [m |-> <<>>, e |-> 0]

IsFloat(x) ==
  \/ x = FZero
  \/ Len(x.m) = Precision /\ x.m[1] = 1

\* exact sum and product of dyadics.  (The operands are bound through
\* singleton sets so that they are evaluated before the operation, as Python
\* evaluates them, and not on demand inside it.)
DyAdd(x, y) ==
  CHOOSE r \in
    { LET e == Min(u.e, v.e)
          a == IF u.m = <<>> THEN <<>> ELSE u.m \o Zeros(u.e - e)
          b == IF v.m = <<>> THEN <<>> ELSE v.m \o Zeros(v.e - e)
      IN  [m |-> StripLeading(AddBits(a, b)), e |-> e] : u \in {x}, v \in {y} } : TRUE

DyMul(x, y) ==
  CHOOSE r \in
    { LET a == StripTrailing(u.m)
          b == StripTrailing(v.m)
          ea == u.e + (Len(u.m) - Len(a))
          eb == v.e + (Len(v.m) - Len(b))
      IN  IF a = <<>> \/ b = <<>> THEN FZero
          ELSE [m |-> MulBits(a, b), e |-> ea + eb] : u \in {x}, v \in {y} } : TRUE

\* x < y and x <= y, exactly
DyLt(x, y) ==
  LET e == Min(x.e, y.e)
      a == IF x.m = <<>> THEN <<>> ELSE StripLeading(x.m) \o Zeros(x.e - e)
      b == IF y.m = <<>> THEN <<>> ELSE StripLeading(y.m) \o Zeros(y.e - e)
  IN  LtBits(a, b)

DyLe(x, y) == ~ DyLt(y, x)

\* round to nearest, ties to even
RoundNearestEven(x) ==
  LET bits == StripLeading(x.m)
      n == Len(bits)
  IN  IF n = 0 THEN FZero
      ELSE IF n <= Precision
      THEN [m |-> bits \o Zeros(Precision - n), e |-> x.e - (Precision - n)]
      ELSE LET keep == SubSeq(bits, 1, Precision)
               k == n - Precision
               guard == bits[Precision + 1]
               sticky == \E i \in (Precision + 2)..n : bits[i] = 1
               up == guard = 1 /\ (sticky \/ keep[Precision] = 1)
               inc == IF up THEN AddBits(keep, <<1>>) ELSE keep
           IN  IF Len(inc) > Precision
               THEN [m |-> SubSeq(inc, 1, Precision), e |-> x.e + k + 1]
               ELSE [m |-> inc, e |-> x.e + k]

\* float(n) for a natural number n
FromInt(n) == RoundNearestEven([m |-> NatBits(n), e |-> 0])

\* Python's float + float and float * float
FAdd(x, y) == CHOOSE r \in { RoundNearestEven(d) : d \in {DyAdd(x, y)} } : TRUE
FMul(x, y) == CHOOSE r \in { RoundNearestEven(d) : d \in {DyMul(x, y)} } : TRUE

\* Python's x > y on floats
FGt(x, y) == DyLt(y, x)

\* n further limbs of the quotient r / t by long division (r < t < 2^17)
RECURSIVE QuotLimbs(_, _, _)
QuotLimbs(r, t, n) ==
  IF n = 0 THEN [q |-> <<>>, r |-> r]
  ELSE LET rest == QuotLimbs((r * Base) % t, t, n - 1)
       IN  [q |-> <<(r * Base) \div t>> \o rest.q, r |-> rest.r]

RECURSIVE ShiftUp(_, _)
ShiftUp(p, t) == IF p >= t THEN 0 ELSE 1 + ShiftUp(2 * p, t)

RECURSIVE ShiftDown(_, _)
ShiftDown(p, t) == IF p < 2 * t THEN 0 ELSE 1 + ShiftDown(p, 2 * t)

\* Python's true division p / t of two ints (p >= 0, t > 0): the quotient,
\* correctly rounded
TrueDiv(p, t) ==
  IF p = 0 THEN FZero
  ELSE LET up == ShiftUp(p, t)
           dn == ShiftDown(p, t)
           pp == p * Pow2(up)
           tt == t * Pow2(dn)
           d == QuotLimbs(pp - tt, tt, (Precision - 1) \div LimbBits)
           q == <<1>> \o PadLeft(FromLimbs(<<d.q[4], d.q[3], d.q[2], d.q[1]>>),
                                 Precision - 1)
           roundUp == \/ 2 * d.r > tt
                      \/ 2 * d.r = tt /\ q[Precision] = 1
           inc == IF roundUp THEN AddBits(q, <<1>>) ELSE q
           e == dn - up - (Precision - 1)
       IN  IF Len(inc) > Precision
           THEN [m |-> SubSeq(inc, 1, Precision), e |-> e + 1]
           ELSE [m |-> inc, e |-> e]

\* Python's int(x) for a float x >= 0: truncation
FTrunc(x) ==
  IF x.m = <<>> THEN 0
  ELSE IF x.e >= 0 THEN BitsNat(x.m) * Pow2(x.e)
  ELSE IF - x.e >= Len(x.m) THEN 0
  ELSE BitsNat(SubSeq(x.m, 1, Len(x.m) + x.e))

-----------------------------------------------------------------------------
(* Text: a Python str is a sequence of one-character strings               *)

UpperCase ==
  {"A","B","C","D","E","F","G","H","I","J","K","L","M",
   "N","O","P","Q","R","S","T","U","V","W","X","Y","Z"}

LowerOf ==
  [c \in UpperCase |-> CASE c = "A" -> "a"
                       [] c = "B" -> "b"
                       [] c = "C" -> "c"
                       [] c = "D" -> "d"
                       [] c = "E" -> "e"
                       [] c = "F" -> "f"
                       [] c = "G" -> "g"
                       [] c = "H" -> "h"
                       [] c = "I" -> "i"
                       [] c = "J" -> "j"
                       [] c = "K" -> "k"
                       [] c = "L" -> "l"
                       [] c = "M" -> "m"
                       [] c = "N" -> "n"
                       [] c = "O" -> "o"
                       [] c = "P" -> "p"
                       [] c = "Q" -> "q"
                       [] c = "R" -> "r"
                       [] c = "S" -> "s"
                       [] c = "T" -> "t"
                       [] c = "U" -> "u"
                       [] c = "V" -> "v"
                       [] c = "W" -> "w"
                       [] c = "X" -> "x"
                       [] c = "Y" -> "y"
                       [] c = "Z" -> "z"]

\* str.lower()
Lower(text) ==
  [i \in 1..Len(text) |-> IF text[i] \in UpperCase THEN LowerOf[text[i]] ELSE text[i]]

StartsAt(text, term, i) ==
  /\ i + Len(term) - 1 <= Len(text)
  /\ \A j \in 1..Len(term) : text[i + j - 1] = term[j]

\* term in text
Contains(term, text) == \E i \in 1..Len(text) : StartsAt(text, term, i)

\* text.count(term): occurrences found left to right, the search resuming
\* after the end of each occurrence (overlapping occurrences count once)
RECURSIVE CountFrom(_, _, _)
CountFrom(term, text, i) ==
  LET hits == { j \in i..(Len(text) - Len(term) + 1) : StartsAt(text, term, j) }
  IN  IF hits = {} THEN 0
      ELSE LET first == CHOOSE j \in hits : \A k \in hits : j <= k
           IN  1 + CountFrom(term, text, first + Len(term))

Count(term, text) == CountFrom(term, text, 1)

\* (mutant) 'growth' is missing from the list
positive_terms_NoGrowth ==
  << <<"p","o","s","i","t","i","v","e">>,
     <<"h","a","p","p","y">>,
     <<"j","o","y">>,
     <<"c","o","n","t","e","n","t">>,
     <<"s","a","t","i","s","f","i","e","d">>,
     <<"i","m","p","r","o","v","e">>,
     <<"g","o","o","d">>,
     <<"w","e","l","l">>,
     <<"b","e","t","t","e","r">> >>

positive_terms ==
  << <<"p","o","s","i","t","i","v","e">>,
     <<"h","a","p","p","y">>,
     <<"j","o","y">>,
     <<"c","o","n","t","e","n","t">>,
     <<"s","a","t","i","s","f","i","e","d">>,
     <<"g","r","o","w","t","h">>,
     <<"i","m","p","r","o","v","e">>,
     <<"g","o","o","d">>,
     <<"w","e","l","l">>,
     <<"b","e","t","t","e","r">> >>

negative_terms ==
  << <<"n","e","g","a","t","i","v","e">>,
     <<"s","a","d">>,
     <<"c","h","a","l","l","e","n","g","e">>,
     <<"d","i","f","f","i","c","u","l","t">>,
     <<"b","l","o","c","k","e","r">>,
     <<"f","a","t","i","g","u","e">>,
     <<"s","t","r","e","s","s">>,
     <<"a","n","x","i","o","u","s">>,
     <<"o","v","e","r","w","h","e","l","m">>,
     <<"h","a","r","d">> >>

energetic_terms ==
  << <<"e","n","e","r","g","y">>,
     <<"a","c","t","i","v","e">>,
     <<"d","y","n","a","m","i","c">>,
     <<"v","i","b","r","a","n","t">>,
     <<"e","x","c","i","t","e">>,
     <<"m","o","t","i","v","a","t","e">>,
     <<"d","r","i","v","e">> >>

calm_terms ==
  << <<"c","a","l","m">>,
     <<"p","e","a","c","e">>,
     <<"s","e","r","e","n","e">>,
     <<"t","r","a","n","q","u","i","l">>,
     <<"r","e","l","a","x">>,
     <<"b","a","l","a","n","c","e">>,
     <<"c","e","n","t","e","r","e","d">> >>

\* for term in terms: if term in text: cue += text.count(term)
RECURSIVE ScanTerms(_, _, _)
ScanTerms(terms, text, k) ==
  IF k > Len(terms) THEN 0
  ELSE (IF Contains(terms[k], text) THEN Count(terms[k], text) ELSE 0)
       + ScanTerms(terms, text, k + 1)

CueNames == <<"positive", "negative", "energetic", "calm", "chaotic", "focused">>

\* (mutant) the negative markers are also counted as chaotic
RawCounts_ChaoticWired(analysis) ==
  LET text == Lower(analysis)
  IN  [positive  |-> ScanTerms(positive_terms, text, 1),
       negative  |-> ScanTerms(negative_terms, text, 1),
       energetic |-> ScanTerms(energetic_terms, text, 1),
       calm      |-> ScanTerms(calm_terms, text, 1),
       chaotic   |-> ScanTerms(negative_terms, text, 1),
       focused   |-> 0]

\* the accumulators of extract_emotional_cues before normalisation
RawCounts(analysis) ==
  LET text == Lower(analysis)
  IN  [positive  |-> ScanTerms(positive_terms, text, 1),
       negative  |-> ScanTerms(negative_terms, text, 1),
       energetic |-> ScanTerms(energetic_terms, text, 1),
       calm      |-> ScanTerms(calm_terms, text, 1),
       chaotic   |-> 0,
       focused   |-> 0]

CueTotal(c) ==
  c.positive + c.negative + c.energetic + c.calm + c.chaotic + c.focused

ZeroCues == [k \in {CueNames[i] : i \in 1..6} |-> FZero]

\* (mutant) the normalisation is left out
Normalize_Skipped(counts) == [k \in DOMAIN counts |-> FromInt(counts[k])]

\* total = sum(values); if total > 0: every value /= total
Normalize(counts) ==
  LET total == CueTotal(counts)
  IN  IF total > 0
      THEN [k \in DOMAIN counts |-> TrueDiv(counts[k], total)]
      ELSE [k \in DOMAIN counts |-> FZero]

extract_emotional_cues(analysis) == Normalize(RawCounts(analysis))

-----------------------------------------------------------------------------
(* The rendering pipeline                                                  *)

Unbound == "<unbound>"
Absent == "<absent>"
DefaultLifeArea == "general life"

\* dict.get(key, default)
Get(field, default) == IF field = Absent THEN default ELSE field

\* the float literals of the source
Half == TrueDiv(1, 2)
F08 == TrueDiv(4, 5)
F03 == TrueDiv(3, 10)
F04 == TrueDiv(2, 5)
F06 == TrueDiv(3, 5)
F07 == TrueDiv(7, 10)
F255 == FromInt(255)
FOne == FromInt(1)

Clamp(v) == Min(255, Max(0, v))

\* (mutant) the energetic cue enters the red channel unhalved
calculate_base_color_NoHalf(cues) ==
  LET r == FTrunc(FMul(F255, FAdd(cues.positive, cues.energetic)))
      g == FTrunc(FMul(F255, FAdd(FMul(cues.positive, F08), FMul(cues.calm, Half))))
      b == FTrunc(FMul(F255, FAdd(cues.negative, cues.calm)))
  IN  <<Clamp(r), Clamp(g), Clamp(b)>>

calculate_base_color(cues) ==
  LET r == FTrunc(FMul(F255, FAdd(cues.positive, FMul(cues.energetic, Half))))
      g == FTrunc(FMul(F255, FAdd(FMul(cues.positive, F08), FMul(cues.calm, Half))))
      b == FTrunc(FMul(F255, FAdd(cues.negative, cues.calm)))
  IN  <<Clamp(r), Clamp(g), Clamp(b)>>

\* (mutant) 50 instead of 40 shapes per unit of energy
NumShapes_Fifty(cues) == FTrunc(FAdd(FromInt(10), FMul(FromInt(50), cues.energetic)))

\* num_shapes = int(10 + 40 * emotional_cues['energetic'])
NumShapes(cues) == FTrunc(FAdd(FromInt(10), FMul(FromInt(40), cues.energetic)))

\* (mutant) focused is tested before chaotic
ShapeChoices_FocusedFirst(cues) ==
  IF FGt(cues.focused, F03) THEN {"focused"}
  ELSE IF FGt(cues.chaotic, F03) THEN {"chaos"}
  ELSE {"circle", "rectangle", "polygon"}

\* the shape types one iteration of draw_emotional_shapes may pick
ShapeChoices(cues) ==
  IF FGt(cues.chaotic, F03) THEN {"chaos"}
  ELSE IF FGt(cues.focused, F03) THEN {"focused"}
  ELSE {"circle", "rectangle", "polygon"}

\* the number of ImageDraw calls one shape makes
DrawCalls(shape_type) ==
  CASE shape_type = "circle" -> 1
    [] shape_type = "rectangle" -> 1
    [] shape_type = "polygon" -> 1
    [] shape_type = "chaos" -> 5
    [] shape_type = "focused" -> 3

\* A canvas: its background, the number of shapes drawn on it, their types,
\* the number of draw calls they took and the filters applied to its pixels
NewImage(background) ==
  [background |-> background, shapes |-> 0, kinds |-> {}, calls |-> 0, filters |-> {}]

NoImage == NewImage(<<-1, -1, -1>>)

DrawOn(img, shape_type) ==
  [img EXCEPT !.shapes = @ + 1,
              !.kinds = @ \cup {shape_type},
              !.calls = @ + DrawCalls(shape_type)]

\* (mutant) the two thresholds are exchanged
FiltersFor_Swapped(cues) ==
  (IF FGt(cues.chaotic, F06) THEN {"GaussianBlur"} ELSE {})
    \cup (IF FGt(cues.calm, F04) THEN {"SMOOTH"} ELSE {})

\* the filters whose condition apply_emotional_filters finds true
FiltersFor(cues) ==
  (IF FGt(cues.chaotic, F04) THEN {"GaussianBlur"} ELSE {})
    \cup (IF FGt(cues.calm, F06) THEN {"SMOOTH"} ELSE {})

\* apply_emotional_filters(image, cues): Image.filter returns a new image,
\* which the function binds to its own parameter and drops on return.
\* local: the image its parameter names at exit; passed: the caller's image
apply_emotional_filters(img, cues) ==
  [local  |-> [img EXCEPT !.filters = @ \cup FiltersFor(cues)],
   passed |-> img]

\* image.save(PNG), base64, "data:image/png;base64," + payload
DataURI(img) == [scheme |-> "data:image/png;base64,", png |-> img]

NoData == DataURI(NoImage)

FallbackShapes == 20

\* generate_fallback_image(): 20 shapes, each a circle or a rectangle
FallbackImages ==
  { DataURI([background |-> <<30, 30, 50>>, shapes |-> FallbackShapes, kinds |-> K,
             calls |-> FallbackShapes, filters |-> {}]) :
      K \in (SUBSET {"circle", "rectangle"}) \ {{}} }

PrimaryDescription(la) ==
  <<"Abstract visualization of your emotional state regarding ", la>>

FallbackDescription == <<"Abstract representation of emotional state">>

ImageResponse(data, description) ==
  [status |-> 200, kind |-> "image", imageData |-> data, description |-> description]

\* (mutant) the except clause pairs the fallback image with the description
\* of the primary path
ImageFallbackResponses_PrimaryDescription ==
  { ImageResponse(d, PrimaryDescription(DefaultLifeArea)) : d \in FallbackImages }

\* the body of the except clause of generate_emotion_image
ImageFallbackResponses ==
  { ImageResponse(d, FallbackDescription) : d \in FallbackImages }

-----------------------------------------------------------------------------
(* The canned questions and analysis                                       *)

get_fallback_questions(la) == [template |-> "fallback_questions", life_area |-> la]

\* parse_questions_with_options(text): the first five questions of a JSON
\* array of at least five, and the canned questions for anything else
parse_questions_with_options(text) ==
  IF text = "json_array_of_5" THEN [template |-> "api_questions", life_area |-> "<api>"]
  ELSE get_fallback_questions("selected area")

Digits == {"0", "1", "2", "3", "4", "5", "6", "7", "8", "9"}

\* str.isdigit()
IsDigit(str) == str # <<>> /\ \A i \in 1..Len(str) : str[i] \in Digits

DigitValue(c) ==
  CASE c = "0" -> 0 [] c = "1" -> 1 [] c = "2" -> 2 [] c = "3" -> 3 [] c = "4" -> 4
    [] c = "5" -> 5 [] c = "6" -> 6 [] c = "7" -> 7 [] c = "8" -> 8 [] c = "9" -> 9

\* int(str) of a string of digits
RECURSIVE IntOf(_)
IntOf(str) ==
  IF str = <<>> THEN 0
  ELSE 10 * IntOf(SubSeq(str, 1, Len(str) - 1)) + DigitValue(str[Len(str)])

QuestionPrefix == <<"q","u","e","s","t","i","o","n">>

\* key.startswith('question')
IsQuestionKey(key) == StartsAt(key, QuestionPrefix, 1)

\* key.replace('question', '')
RECURSIVE RemovePrefix(_, _, _)
RemovePrefix(key, term, i) ==
  IF i > Len(key) THEN <<>>
  ELSE IF StartsAt(key, term, i) THEN RemovePrefix(key, term, i + Len(term))
  ELSE <<key[i]>> \o RemovePrefix(key, term, i + 1)

QuestionKeys(resp) == { k \in DOMAIN resp.entries : IsQuestionKey(k) }

\* get_fallback_analysis raises: responses has no items(), or a counted
\* value has no 'answer'
FallbackAnalysisRaises(resp) ==
  \/ resp.kind # "dict"
  \/ \E k \in QuestionKeys(resp) : ~ resp.entries[k].has_answer

PositiveCount(resp) ==
  Cardinality({ k \in QuestionKeys(resp) :
                  /\ IsDigit(resp.entries[k].answer)
                  /\ IntOf(resp.entries[k].answer) >= 4 })

Sentiment(resp) ==
  LET total_answers == Cardinality(QuestionKeys(resp))
      positivity_ratio == IF total_answers > 0
                          THEN TrueDiv(PositiveCount(resp), total_answers)
                          ELSE Half
  IN  IF FGt(positivity_ratio, F07) THEN "generally positive"
      ELSE IF FGt(positivity_ratio, F04) THEN "mixed"
      ELSE "generally challenging"

get_fallback_analysis(la, resp, qd) ==
  [template |-> "fallback_analysis", life_area |-> la, sentiment |-> Sentiment(resp)]

\* the loop that formats the responses for the prompt raises: responses has
\* no items(), a question key has no number, or a value has no 'answer'
FormatRaises(resp, qd) ==
  \/ resp.kind # "dict"
  \/ \E k \in QuestionKeys(resp) :
       LET rest == RemovePrefix(k, QuestionPrefix, 1)
       IN  \/ ~ IsDigit(rest)
           \/ IntOf(rest) < qd /\ ~ resp.entries[k].has_answer

JsonResponse(kind, payload) == [status |-> 200, kind |-> kind, payload |-> payload]

\* an exception that leaves the view function: Flask answers 500
ErrorResponse(exception) == [status |-> 500, kind |-> "error", payload |-> exception]

NoResponse == [status |-> 0, kind |-> "none", payload |-> "none"]

-----------------------------------------------------------------------------
(* Requests                                                                *)

RECURSIVE Repeat(_, _)
Repeat(word, n) == IF n = 0 THEN <<>> ELSE word \o Repeat(word, n - 1)

WordPositive == <<"G","o","o","d"," ">>
WordNegative == <<"s","a","d"," ">>
WordEnergetic == <<"e","n","e","r","g","y"," ">>
WordCalm == <<"c","a","l","m"," ">>

BuildText(a, b, c, d) ==
  Repeat(WordPositive, a) \o Repeat(WordNegative, b)
    \o Repeat(WordEnergetic, c) \o Repeat(WordCalm, d)

\* the example sentence of the specification
ExampleText ==
  <<"Y","o","u"," ","s","h","o","w"," ","p","o","s","i","t","i","v","e"," ","g","r","o","w","t","h"," ","a","n","d"," ","g","o","o","d"," ","e","n","e","r","g","y",","," ","w","i","t","h"," ","s","o","m","e"," ","s","t","r","e","s","s"," ","a","n","d"," ","d","i","f","f","i","c","u","l","t","y",".">>

\* 'excite' overlaps itself
OverlapText == <<"E","X","C","I","T","E","X","C","I","T","E">>

\* markers inside longer words
CompoundText == <<"W","e","l","l","b","e","i","n","g"," ","i","s"," ","h","a","r","d","-","w","o","n">>

\* forty positive markers and one energetic marker
PositiveLine ==
  <<"p","o","s","i","t","i","v","e"," ","h","a","p","p","y"," ","j","o","y"," ","c","o","n","t","e","n","t"," ","s","a","t","i","s","f","i","e","d"," ">>
    \o <<"g","r","o","w","t","h"," ","i","m","p","r","o","v","e"," ","g","o","o","d"," ","w","e","l","l"," ","b","e","t","t","e","r"," ">>
LongText == Repeat(PositiveLine, 4) \o <<"e","n","e","r","g","y">>

Texts ==
  { BuildText(a, b, c, d) : a \in 0..MaxRep, b \in 0..MaxRep, c \in 0..MaxRep, d \in 0..MaxRep }
    \cup {ExampleText, OverlapText, CompoundText, LongText}

LifeAreas == {"career"}

Key0 == <<"q","u","e","s","t","i","o","n","0">>
KeyNaire == <<"q","u","e","s","t","i","o","n","n","a","i","r","e">>
KeyMood == <<"m","o","o","d">>
ResponseKeys == {Key0, KeyNaire, KeyMood}

Answer(text) == [has_answer |-> TRUE, answer |-> text]
NoAnswer == [has_answer |-> FALSE, answer |-> <<>>]
ResponseValues == {Answer(<<"5">>), Answer(<<"2">>), NoAnswer}

EmptyDict == [kind |-> "dict", entries |-> [k \in {} |-> NoAnswer]]
UnboundDict == [kind |-> Unbound, entries |-> [k \in {} |-> NoAnswer]]
ListValue == [kind |-> "list", entries |-> [k \in {} |-> NoAnswer]]

ResponseDicts ==
  UNION { { [kind |-> "dict", entries |-> f] : f \in [K -> ResponseValues] } :
            K \in SUBSET ResponseKeys }

NoAnalysis == [kind |-> Absent, text |-> <<>>]
UnboundAnalysis == [kind |-> Unbound, text |-> <<>>]
StrAnalysis(text) == [kind |-> "str", text |-> text]
IntAnalysis == [kind |-> "int", text |-> <<>>]

Request(body, la, an, resp, qd) ==
  [body |-> body, lifeArea |-> la, analysis |-> an, responses |-> resp,
   questionsData |-> qd]

NoRequest == Request("none", Absent, NoAnalysis, EmptyDict, 0)

\* a body that is not JSON, the JSON value null, or a JSON object
BadBodies ==
  { Request(b, Absent, NoAnalysis, EmptyDict, 0) : b \in {"malformed", "null"} }

Requests(ep) ==
  BadBodies \cup
  CASE ep = "questions" ->
         { Request("object", la, NoAnalysis, EmptyDict, 0) :
             la \in LifeAreas \cup {Absent} }
    [] ep = "analysis" ->
         { Request("object", la, NoAnalysis, resp, qd) :
             la \in LifeAreas \cup {Absent},
             resp \in ResponseDicts \cup {ListValue},
             qd \in {0, 1} }
    [] ep = "image" ->
         { Request("object", la, an, EmptyDict, 0) :
             la \in LifeAreas \cup {Absent},
             an \in {NoAnalysis, IntAnalysis} \cup { StrAnalysis(t) : t \in Texts } }

Endpoints == {"questions", "analysis", "image"}

\* what requests.post and the reading of its result can do
ApiOutcomes == {"raises", "status_500", "malformed_payload", "ok"}
ApiTexts == {"json_array_of_5", "prose"}

\* raw counts of a directly supplied cue vector
CueCounts == [ {CueNames[i] : i \in 1..6} -> 0..MaxCue ]

-----------------------------------------------------------------------------
(* State                                                                   *)

VARIABLES
  apiKey,          \* GEMINI_API_KEY is set
  pc,              \* the position of the request being served
  endpoint,        \* the view function serving it
  request,         \* its body
  life_area,       \* locals of the view functions
  analysis,
  responses,
  questions_data,
  emotional_cues,
  image_data,
  caller,          \* who called generate_abstract_visualization
  image,           \* locals of generate_abstract_visualization and
  base_color,      \*   of draw_emotional_shapes
  num_shapes,
  drawn,           \* iterations of the shape loop made so far
  response,        \* what the client receives
  raw,             \* history: the cue counts before normalisation
  excepted,        \* history: the except clause was entered
  filtered         \* history: the image apply_emotional_filters held at exit

handlerVars == <<life_area, analysis, responses, questions_data, emotional_cues, image_data>>
vizVars == <<image, base_color, num_shapes, drawn>>
historyVars == <<raw, excepted, filtered>>
requestVars == <<apiKey, endpoint, request>>
vars == <<apiKey, pc, endpoint, request, life_area, analysis, responses,
          questions_data, emotional_cues, image_data, caller, image, base_color,
          num_shapes, drawn, response, raw, excepted, filtered>>

NoCounts == [k \in {CueNames[i] : i \in 1..6} |-> 0]
NoColor == <<-1, -1, -1>>

\* no view function is running
Cleared ==
  /\ life_area = Unbound
  /\ analysis = UnboundAnalysis
  /\ responses = UnboundDict
  /\ questions_data = -1
  /\ emotional_cues = ZeroCues
  /\ image_data = NoData
  /\ image = NoImage
  /\ base_color = NoColor
  /\ num_shapes = -1
  /\ drawn = 0
  /\ raw = NoCounts
  /\ excepted = FALSE
  /\ filtered = NoImage

Init ==
  /\ apiKey \in BOOLEAN
  /\ pc = "idle"
  /\ endpoint = "none"
  /\ request = NoRequest
  /\ caller = "none"
  /\ response = NoResponse
  /\ Cleared

\* generate_abstract_visualization called directly on a cue vector
InitViz ==
  /\ apiKey = FALSE
  /\ pc = "viz_begin"
  /\ endpoint = "none"
  /\ request = NoRequest
  /\ caller = "direct"
  /\ response = NoResponse
  /\ life_area = Unbound
  /\ analysis = UnboundAnalysis
  /\ responses = UnboundDict
  /\ questions_data = -1
  /\ image_data = NoData
  /\ image = NoImage
  /\ base_color = NoColor
  /\ num_shapes = -1
  /\ drawn = 0
  /\ excepted = FALSE
  /\ filtered = NoImage
  /\ raw \in CueCounts
  /\ emotional_cues = Normalize(raw)

-----------------------------------------------------------------------------
(* The server takes a request                                              *)

Receive ==
  /\ pc = "idle"
  /\ \E ep \in Endpoints : \E req \in Requests(ep) :
       /\ endpoint' = ep
       /\ request' = req
       /\ pc' = CASE ep = "questions" -> "q_parse"
                  [] ep = "analysis" -> "a_parse"
                  [] ep = "image" -> "img_parse"
  /\ UNCHANGED <<apiKey, handlerVars, caller, vizVars, response, historyVars>>

\* the response is sent and the frame of the view function is gone
Finish ==
  /\ pc = "done"
  /\ pc' = "idle"
  /\ endpoint' = "none"
  /\ request' = NoRequest
  /\ caller' = "none"
  /\ response' = NoResponse
  /\ life_area' = Unbound
  /\ analysis' = UnboundAnalysis
  /\ responses' = UnboundDict
  /\ questions_data' = -1
  /\ emotional_cues' = ZeroCues
  /\ image_data' = NoData
  /\ image' = NoImage
  /\ base_color' = NoColor
  /\ num_shapes' = -1
  /\ drawn' = 0
  /\ raw' = NoCounts
  /\ excepted' = FALSE
  /\ filtered' = NoImage
  /\ UNCHANGED apiKey

-----------------------------------------------------------------------------
(* generate_questions                                                      *)

\* data = request.get_json(); life_area = data.get(...); the early return
\* when no API key is configured
QParse ==
  /\ pc = "q_parse"
  /\ IF request.body # "object"
     THEN /\ pc' = "q_except"
          /\ excepted' = TRUE
          /\ UNCHANGED <<life_area, response>>
     ELSE /\ life_area' = Get(request.lifeArea, DefaultLifeArea)
          /\ IF ~ apiKey
             THEN /\ response' = JsonResponse("questions", get_fallback_questions(life_area'))
                  /\ pc' = "done"
             ELSE /\ pc' = "q_api"
                  /\ UNCHANGED response
          /\ UNCHANGED excepted
  /\ UNCHANGED <<requestVars, analysis, responses, questions_data, emotional_cues,
                 image_data, caller, vizVars, raw, filtered>>

\* requests.post, the reading of the answer and the return
QApi ==
  /\ pc = "q_api"
  /\ \E outcome \in ApiOutcomes :
       IF outcome = "ok"
       THEN /\ \E text \in ApiTexts :
                 response' = JsonResponse("questions", parse_questions_with_options(text))
            /\ pc' = "done"
            /\ UNCHANGED excepted
       ELSE /\ pc' = "q_except"
            /\ excepted' = TRUE
            /\ UNCHANGED response
  /\ UNCHANGED <<requestVars, handlerVars, caller, vizVars, raw, filtered>>

\* except Exception: return the canned questions for life_area
QExcept ==
  /\ pc = "q_except"
  /\ response' = IF life_area = Unbound
                 THEN ErrorResponse("UnboundLocalError")
                 ELSE JsonResponse("questions", get_fallback_questions(life_area))
  /\ pc' = "done"
  /\ UNCHANGED <<requestVars, handlerVars, caller, vizVars, historyVars>>

-----------------------------------------------------------------------------
(* generate_analysis                                                       *)

AParse ==
  /\ pc = "a_parse"
  /\ IF request.body # "object"
     THEN /\ pc' = "a_except"
          /\ excepted' = TRUE
          /\ UNCHANGED <<life_area, responses, questions_data, response>>
     ELSE /\ life_area' = Get(request.lifeArea, DefaultLifeArea)
          /\ responses' = request.responses
          /\ questions_data' = request.questionsData
          /\ IF apiKey
             THEN /\ pc' = "a_format"
                  /\ UNCHANGED <<response, excepted>>
             ELSE IF FallbackAnalysisRaises(responses')
             THEN /\ pc' = "a_except"
                  /\ excepted' = TRUE
                  /\ UNCHANGED response
             ELSE /\ response' = JsonResponse("analysis",
                                   get_fallback_analysis(life_area', responses', questions_data'))
                  /\ pc' = "done"
                  /\ UNCHANGED excepted
  /\ UNCHANGED <<requestVars, analysis, emotional_cues, image_data, caller, vizVars,
                 raw, filtered>>

\* the loop that formats the responses for the prompt
AFormat ==
  /\ pc = "a_format"
  /\ IF FormatRaises(responses, questions_data)
     THEN pc' = "a_except" /\ excepted' = TRUE
     ELSE pc' = "a_api" /\ UNCHANGED excepted
  /\ UNCHANGED <<requestVars, handlerVars, caller, vizVars, response, raw, filtered>>

AApi ==
  /\ pc = "a_api"
  /\ \E outcome \in ApiOutcomes :
       IF outcome = "ok"
       THEN /\ response' = JsonResponse("analysis",
                             [template |-> "api_analysis", life_area |-> "<api>",
                              sentiment |-> "<api>"])
            /\ pc' = "done"
            /\ UNCHANGED excepted
       ELSE /\ pc' = "a_except"
            /\ excepted' = TRUE
            /\ UNCHANGED response
  /\ UNCHANGED <<requestVars, handlerVars, caller, vizVars, raw, filtered>>

\* except Exception: return the canned analysis for life_area, responses
\* and questions_data
AExcept ==
  /\ pc = "a_except"
  /\ response' = IF life_area = Unbound
                 THEN ErrorResponse("UnboundLocalError")
                 ELSE IF FallbackAnalysisRaises(responses)
                 THEN ErrorResponse("AttributeError, KeyError or TypeError")
                 ELSE JsonResponse("analysis",
                        get_fallback_analysis(life_area, responses, questions_data))
  /\ pc' = "done"
  /\ UNCHANGED <<requestVars, handlerVars, caller, vizVars, historyVars>>

-----------------------------------------------------------------------------
(* generate_emotion_image                                                  *)

\* data = request.get_json(); analysis = data.get(...); life_area = data.get(...)
ImgParse ==
  /\ pc = "img_parse"
  /\ IF request.body # "object"
     THEN /\ pc' = "img_except"
          /\ excepted' = TRUE
          /\ UNCHANGED <<analysis, life_area>>
     ELSE /\ analysis' = IF request.analysis.kind = Absent THEN StrAnalysis(<<>>)
                         ELSE request.analysis
          /\ life_area' = Get(request.lifeArea, DefaultLifeArea)
          /\ pc' = "img_extract"
          /\ UNCHANGED excepted
  /\ UNCHANGED <<requestVars, responses, questions_data, emotional_cues, image_data,
                 caller, vizVars, response, raw, filtered>>

\* emotional_cues = extract_emotional_cues(analysis), and the call of
\* generate_abstract_visualization
ImgExtract ==
  /\ pc = "img_extract"
  /\ IF analysis.kind # "str"
     THEN /\ pc' = "img_except"
          /\ excepted' = TRUE
          /\ UNCHANGED <<emotional_cues, raw, caller>>
     ELSE /\ emotional_cues' = extract_emotional_cues(analysis.text)
          /\ raw' = RawCounts(analysis.text)
          /\ caller' = "handler"
          /\ pc' = "viz_begin"
          /\ UNCHANGED excepted
  /\ UNCHANGED <<requestVars, life_area, analysis, responses, questions_data,
                 image_data, vizVars, response, filtered>>

\* image = Image.new('RGB', (400, 400), (0, 0, 0));
\* base_color = calculate_base_color(emotional_cues)
VizBegin ==
  /\ pc = "viz_begin"
  /\ image' = NewImage(<<0, 0, 0>>)
  /\ base_color' = calculate_base_color(emotional_cues)
  /\ pc' = "draw_begin"
  /\ UNCHANGED <<requestVars, handlerVars, caller, num_shapes, drawn, response, historyVars>>

\* num_shapes = int(10 + 40 * emotional_cues['energetic'])
DrawBegin ==
  /\ pc = "draw_begin"
  /\ num_shapes' = NumShapes(emotional_cues)
  /\ drawn' = 0
  /\ pc' = "draw_loop"
  /\ UNCHANGED <<requestVars, handlerVars, caller, image, base_color, response, historyVars>>

\* one iteration of for _ in range(num_shapes)
DrawShape ==
  /\ pc = "draw_loop"
  /\ drawn < num_shapes
  /\ \E shape_type \in ShapeChoices(emotional_cues) :
       image' = DrawOn(image, shape_type)
  /\ drawn' = drawn + 1
  /\ UNCHANGED <<requestVars, pc, handlerVars, caller, base_color, num_shapes, response,
                 historyVars>>

\* the loop is over; apply_emotional_filters(image, emotional_cues)
ApplyFilters ==
  /\ pc = "draw_loop"
  /\ drawn = num_shapes
  /\ LET result == apply_emotional_filters(image, emotional_cues)
     IN  /\ image' = result.passed
         /\ filtered' = result.local
  /\ pc' = "encode"
  /\ UNCHANGED <<requestVars, handlerVars, caller, base_color, num_shapes, drawn,
                 response, raw, excepted>>

\* image.save(...), base64 and the return to the caller, whose frame keeps
\* the result only
EncodeImage ==
  /\ pc = "encode"
  /\ image_data' = DataURI(image)
  /\ pc' = IF caller = "handler" THEN "img_return" ELSE "viz_returned"
  /\ image' = NoImage
  /\ base_color' = NoColor
  /\ num_shapes' = -1
  /\ drawn' = 0
  /\ UNCHANGED <<requestVars, life_area, analysis, responses, questions_data,
                 emotional_cues, caller, response, historyVars>>

\* an exception raised while generate_abstract_visualization runs (a failing
\* draw call, filter or encoder) unwinds its frame into the try block
RenderFault ==
  /\ pc \in {"viz_begin", "draw_begin", "draw_loop", "encode"}
  /\ caller = "handler"
  /\ pc' = "img_except"
  /\ excepted' = TRUE
  /\ image' = NoImage
  /\ base_color' = NoColor
  /\ num_shapes' = -1
  /\ drawn' = 0
  /\ UNCHANGED <<requestVars, handlerVars, caller, response, raw, filtered>>

\* return jsonify({imageData, description})
ImgReturn ==
  /\ pc = "img_return"
  /\ response' = ImageResponse(image_data, PrimaryDescription(life_area))
  /\ pc' = "done"
  /\ UNCHANGED <<requestVars, handlerVars, caller, vizVars, historyVars>>

\* except Exception: the fallback image and its description
ImgExcept ==
  /\ pc = "img_except"
  /\ response' \in ImageFallbackResponses
  /\ pc' = "done"
  /\ UNCHANGED <<requestVars, handlerVars, caller, vizVars, historyVars>>

-----------------------------------------------------------------------------
(* Specifications                                                          *)

Next ==
  \/ Receive
  \/ QParse
  \/ QApi
  \/ QExcept
  \/ AParse
  \/ AFormat
  \/ AApi
  \/ AExcept
  \/ ImgParse
  \/ ImgExtract
  \/ VizBegin
  \/ DrawBegin
  \/ DrawShape
  \/ ApplyFilters
  \/ EncodeImage
  \/ RenderFault
  \/ ImgReturn
  \/ ImgExcept
  \/ Finish

Spec == Init /\ [][Next]_vars

NextViz ==
  \/ VizBegin
  \/ DrawBegin
  \/ DrawShape
  \/ ApplyFilters
  \/ EncodeImage

SpecViz == InitViz /\ [][NextViz]_vars

-----------------------------------------------------------------------------
(* Properties                                                              *)

Trio == {"circle", "rectangle", "polygon"}

\* sum(emotional_cues.values()) as Python adds floats, left to right
PySum(cues) ==
  FAdd(FAdd(FAdd(FAdd(FAdd(FAdd(FZero, cues.positive), cues.negative),
                      cues.energetic), cues.calm), cues.chaotic), cues.focused)

\* the sum of the six values as real numbers
ExactSum(cues) ==
  DyAdd(DyAdd(DyAdd(DyAdd(DyAdd(cues.positive, cues.negative),
                          cues.energetic), cues.calm), cues.chaotic), cues.focused)

\* 1 - 2^-53 and 1 + 2^-53
OneMinusHalfUlp == [m |-> [i \in 1..53 |-> 1], e |-> -53]
OnePlusHalfUlp == [m |-> <<1>> \o Zeros(52) \o <<1>>, e |-> -53]

AllTerms == positive_terms \o negative_terms \o energetic_terms \o calm_terms

\* some marker term occurs in the lower-cased text
MarkerOccurs(text) ==
  \E k \in 1..Len(AllTerms) : Contains(AllTerms[k], Lower(text))

AllZero(cues) == \A k \in DOMAIN cues : cues[k] = FZero

\* the cues have just been extracted from the text of a request
JustExtracted == pc = "viz_begin" /\ caller = "handler"

\* C1: generate_emotion_image always answers 200 with an image and a
\* description; after a failure anywhere in the try block these are the
\* fallback image and the fallback description, and otherwise the primary
\* image and the description naming the request's life area
C1_FallbackPairing ==
  (pc = "done" /\ endpoint = "image") =>
    /\ response.status = 200
    /\ response.kind = "image"
    /\ IF excepted
       THEN /\ response.imageData \in FallbackImages
            /\ response.description = FallbackDescription
       ELSE /\ response.imageData = image_data
            /\ response.imageData.png.background = <<0, 0, 0>>
            /\ response.imageData.png.shapes >= 10
            /\ response.description =
                 PrimaryDescription(Get(request.lifeArea, DefaultLifeArea))

\* a render fault after a successful extraction, answered with the fallback
C1_Witness ==
  /\ pc = "done"
  /\ endpoint = "image"
  /\ excepted
  /\ CueTotal(raw) > 0
  /\ response.kind = "image"
  /\ response.imageData \in FallbackImages

\* C2 as stated: the six values sum to exactly 1 when a marker occurs, and
\* are all 0 when none does
C2_SumExactlyOne ==
  JustExtracted =>
    IF MarkerOccurs(analysis.text)
    THEN PySum(emotional_cues) = FOne
    ELSE AllZero(emotional_cues)

\* C2 amended: the six values are floats >= 0; when a marker occurs their sum
\* is 1 up to the rounding of the divisions (at most 2^-53 away from 1), and
\* when none occurs all six are 0
C2_SumWithinRounding ==
  JustExtracted =>
    /\ \A k \in DOMAIN emotional_cues : IsFloat(emotional_cues[k])
    /\ IF MarkerOccurs(analysis.text)
       THEN /\ DyLe(OneMinusHalfUlp, ExactSum(emotional_cues))
            /\ DyLe(ExactSum(emotional_cues), OnePlusHalfUlp)
       ELSE AllZero(emotional_cues)

\* a text with markers whose values do not add up to 1.0
C2_Witness ==
  /\ JustExtracted
  /\ MarkerOccurs(analysis.text)
  /\ PySum(emotional_cues) # FOne

\* C3: on the text-driven path chaotic and focused are 0, and every shape
\* drawn is a circle, a rectangle or a polygon
C3_TextNeverChaoticOrFocused ==
  endpoint = "image" =>
    /\ emotional_cues.chaotic = FZero
    /\ emotional_cues.focused = FZero
    /\ image.kinds \subseteq Trio
    /\ image_data.png.kinds \subseteq Trio

\* a text-driven image on which all three types were drawn
C3_Witness ==
  /\ pc = "encode"
  /\ caller = "handler"
  /\ CueTotal(raw) > 0
  /\ image.shapes >= 10
  /\ image.kinds = Trio

\* C4: for every valid cue vector each channel of the base colour is an
\* integer in 0..255, the clamped value of trunc(255*(positive + 0.5*energetic)),
\* trunc(255*(0.8*positive + 0.5*calm)) and trunc(255*(negative + calm))
C4_BaseColorInRange ==
  pc = "draw_begin" =>
    /\ \A i \in 1..3 : base_color[i] \in 0..255
    /\ base_color[1] =
         Clamp(FTrunc(FMul(F255, FAdd(emotional_cues.positive,
                                      FMul(Half, emotional_cues.energetic)))))
    /\ base_color[2] =
         Clamp(FTrunc(FMul(F255, FAdd(FMul(F08, emotional_cues.positive),
                                      FMul(Half, emotional_cues.calm)))))
    /\ base_color[3] =
         Clamp(FTrunc(FMul(F255, FAdd(emotional_cues.negative, emotional_cues.calm))))

\* a vector of negative and calm only: the blue channel is at its maximum
C4_Witness ==
  /\ pc = "draw_begin"
  /\ caller = "direct"
  /\ raw.negative > 0
  /\ raw.calm > 0
  /\ base_color[3] = 255

\* C5 as stated: 10 <= N <= 50, N = 10 exactly when energetic = 0, and
\* N = 50 when energetic = 1
C5_TenExactlyWhenZero ==
  (pc = "encode" /\ caller = "handler") =>
    /\ image.shapes = num_shapes
    /\ num_shapes >= 10
    /\ num_shapes <= 50
    /\ (num_shapes = 10) <=> (emotional_cues.energetic = FZero)
    /\ (emotional_cues.energetic = FOne) => (num_shapes = 50)

\* C5 amended: the loop makes exactly N = int(10 + 40*energetic) iterations,
\* 10 <= N <= 50, N = 10 when energetic = 0 (and whenever energetic < 1/40),
\* and N = 50 when energetic = 1
C5_ShapeCount ==
  (pc = "encode" /\ caller = "handler") =>
    /\ image.shapes = num_shapes
    /\ num_shapes = FTrunc(FAdd(FromInt(10), FMul(FromInt(40), emotional_cues.energetic)))
    /\ num_shapes >= 10
    /\ num_shapes <= 50
    /\ (emotional_cues.energetic = FZero) => (num_shapes = 10)
    /\ (num_shapes = 10) <=> (40 * raw.energetic < CueTotal(raw) \/ CueTotal(raw) = 0)
    /\ (emotional_cues.energetic = FOne) => (num_shapes = 50)

\* ten shapes although an energetic marker occurs
C5_Witness ==
  /\ pc = "encode"
  /\ caller = "handler"
  /\ raw.energetic > 0
  /\ image.shapes = 10

\* C6: with chaotic > 0.3 every shape is a 'chaos' bundle of 5 lines, whatever
\* focused is; with chaotic <= 0.3 and focused > 0.3 every shape is 'focused';
\* otherwise every shape is a circle, a rectangle or a polygon
C6_ChaosFirst ==
  pc \in {"draw_loop", "encode"} =>
    LET chaos == FGt(emotional_cues.chaotic, F03)
        focus == FGt(emotional_cues.focused, F03)
    IN  /\ chaos => (image.kinds \subseteq {"chaos"} /\ image.calls = 5 * image.shapes)
        /\ (~ chaos /\ focus) => image.kinds \subseteq {"focused"}
        /\ (~ chaos /\ ~ focus) => image.kinds \subseteq Trio

\* chaotic and focused both above 0.3, and all the shapes drawn
C6_Witness ==
  /\ pc = "encode"
  /\ FGt(emotional_cues.chaotic, F03)
  /\ FGt(emotional_cues.focused, F03)
  /\ image.shapes = num_shapes
  /\ image.kinds = {"chaos"}

\* C7: the image that is encoded carries the Gaussian blur when chaotic > 0.4
\* and the smoothing when calm > 0.6
C7_FilterObservable ==
  pc \in {"img_return", "viz_returned"} =>
    /\ FGt(emotional_cues.chaotic, F04) => "GaussianBlur" \in image_data.png.filters
    /\ FGt(emotional_cues.calm, F06) => "SMOOTH" \in image_data.png.filters

\* C8 as stated: on the text-driven path neither filter condition is satisfied
C8_NoFilterOnTextPath ==
  (pc = "encode" /\ caller = "handler") => filtered.filters = {}

\* C8 amended: on the text-driven path the blur condition (chaotic > 0.4) is
\* never satisfied; the smoothing condition (calm > 0.6) is satisfied exactly
\* when more than 60% of the marker hits are calm markers
C8_OnlySmoothOnTextPath ==
  (pc = "encode" /\ caller = "handler") =>
    /\ "GaussianBlur" \notin filtered.filters
    /\ ("SMOOTH" \in filtered.filters) <=> (5 * raw.calm > 3 * CueTotal(raw))

\* a text whose calm markers satisfy the smoothing condition
C8_Witness ==
  /\ pc = "encode"
  /\ caller = "handler"
  /\ raw.calm > 0
  /\ "SMOOTH" \in filtered.filters

ExampleCounts ==
  [positive |-> 3, negative |-> 2, energetic |-> 1, calm |-> 0, chaotic |-> 0,
   focused |-> 0]

ExampleCues ==
  [positive |-> TrueDiv(3, 6), negative |-> TrueDiv(2, 6), energetic |-> TrueDiv(1, 6),
   calm |-> FZero, chaotic |-> FZero, focused |-> FZero]

\* C9: the example sentence has 3 positive, 2 negative and 1 energetic hits,
\* cues 3/6, 2/6, 1/6, 0, 0, 0, base colour (148, 102, 85) and exactly 16
\* shapes, each a circle, a rectangle or a polygon
C9_Example ==
  (caller = "handler" /\ analysis = StrAnalysis(ExampleText)) =>
    /\ raw = ExampleCounts
    /\ emotional_cues = ExampleCues
    /\ pc \in {"draw_begin", "draw_loop", "encode"} => base_color = <<148, 102, 85>>
    /\ pc \in {"draw_loop", "encode"} => num_shapes = 16
    /\ pc = "encode" => (image.shapes = 16 /\ image.kinds \subseteq Trio)
    /\ (pc \in {"img_return", "done"} /\ ~ excepted) =>
         (image_data.png.shapes = 16 /\ image_data.png.kinds \subseteq Trio)

\* the example sentence, all its shapes drawn
C9_Witness ==
  /\ pc = "encode"
  /\ caller = "handler"
  /\ analysis = StrAnalysis(ExampleText)
  /\ image.shapes = 16

\* C10: whatever fails in the try block of generate_questions or of
\* generate_analysis, the answer is the canned fallback for the request's
\* life area
C10_AlwaysFallback ==
  (pc = "done" /\ endpoint \in {"questions", "analysis"} /\ excepted) =>
    /\ response.status = 200
    /\ response.payload.template \in {"fallback_questions", "fallback_analysis"}
    /\ response.payload.life_area = Get(request.lifeArea, DefaultLifeArea)

=============================================================================
